---- MODULE Spec2Model ----
(***************************************************************************)
(* A model of the retrieval core of rag-demo: chunkDocuments (the          *)
(* paragraph-aware chunker with its character fallback) and bm25Search     *)
(* (tokenizer, index construction, Okapi BM25 scoring, ranking).           *)
(*                                                                         *)
(* Strings are sequences of one-character strings, so that trim, split,    *)
(* slice and length are computed as the JavaScript runtime computes them.  *)
(***************************************************************************)
EXTENDS Integers, Sequences, FiniteSets, TLC

(***************************************************************************)
(* Bounds of the model.                                                    *)
(***************************************************************************)
\* longest document text of the single-document specification
MaxLen == 6
\* most documents of one chunking call in the multi-document specification
MaxDocs == 2
\* most characters over all documents of one call in that specification
MaxTotalLen == 4
\* longest document text of the specification that states fairness
MaxFairLen == 3

\* the characters a document is written in: a letter, a space, a newline
Chars == {"a", " ", "\n"}

\* display names of the documents, by position in the request
DocNames == <<"A", "B", "C", "D">>

Min(a, b) == IF a <= b THEN a ELSE b
Max(a, b) == IF a >= b THEN a ELSE b

\* all texts of at most n characters
Texts(n) == UNION {[1..k -> Chars] : k \in 0..n}

(***************************************************************************)
(* String primitives of the runtime.                                       *)
(***************************************************************************)
\* the white space String.prototype.trim removes, within Chars
IsSpace(c) == c \in {" ", "\n"}

RECURSIVE TrimStart(_)
TrimStart(s) ==
  IF s = <<>> THEN s
  ELSE IF IsSpace(Head(s)) THEN TrimStart(Tail(s)) ELSE s

RECURSIVE TrimEnd(_)
TrimEnd(s) ==
  IF s = <<>> THEN s
  ELSE IF IsSpace(s[Len(s)]) THEN TrimEnd(SubSeq(s, 1, Len(s) - 1)) ELSE s

\* String.prototype.trim
Trim(s) == TrimEnd(TrimStart(s))

\* String.prototype.slice(start, end): negative indices count from the end,
\* indices are clamped to the string, an empty range gives the empty string
Slice(s, start, end) ==
  LET len  == Len(s)
      from == IF start < 0 THEN Max(len + start, 0) ELSE Min(start, len)
      to   == IF end < 0 THEN Max(len + end, 0) ELSE Min(end, len)
  IN IF from >= to THEN <<>> ELSE SubSeq(s, from + 1, to)

\* the index of the last newline of the run of newlines that starts at i
RECURSIVE NewlineRunEnd(_, _)
NewlineRunEnd(s, i) ==
  IF i < Len(s) /\ s[i + 1] = "\n" THEN NewlineRunEnd(s, i + 1) ELSE i

\* text.split(/\n{2,}/): the pieces between maximal runs of two or more
\* newlines; cur is the piece being read, i the next character
RECURSIVE SplitFrom(_, _, _)
SplitFrom(s, i, cur) ==
  IF i > Len(s) THEN <<cur>>
  ELSE IF s[i] = "\n" /\ NewlineRunEnd(s, i) > i
       THEN <<cur>> \o SplitFrom(s, NewlineRunEnd(s, i) + 1, <<>>)
       ELSE SplitFrom(s, i + 1, Append(cur, s[i]))

SplitParagraphs(s) == SplitFrom(s, 1, <<>>)

\* .map((p) => p.trim()).filter(Boolean)
RECURSIVE TrimAndDropEmpty(_)
TrimAndDropEmpty(ps) ==
  IF ps = <<>> THEN <<>>
  ELSE LET p == Trim(Head(ps))
       IN (IF p = <<>> THEN <<>> ELSE <<p>>) \o TrimAndDropEmpty(Tail(ps))

\* the paragraphs of a trimmed document text
Paragraphs(text) == TrimAndDropEmpty(SplitParagraphs(text))

(***************************************************************************)
(* State of one call of chunkDocuments.                                    *)
(***************************************************************************)
VARIABLES
  docs,          \* the documents of the call: records [name, text]
  chunkSize,     \* the chunkSize argument
  overlap,       \* the overlap argument
  chunks,        \* the chunks pushed so far
  globalId,      \* the id the next chunk gets
  docIndex,      \* the index (from 0) of the document being processed
  paragraphs,    \* the paragraphs of the document being processed
  paraIdx,       \* the position (from 1) of the for-of loop over paragraphs
  currentChunk,  \* the accumulation buffer
  currentStart,  \* the startChar the buffer will be pushed with
  charPos,       \* the running character offset
  pos,           \* the window start of the character fallback
  pc,            \* where the call is: "doc", "para", "window", "done"
  bufferFirst,   \* history: the paragraph the accumulation buffer starts with
  origin         \* history: for each chunk, how it was produced: kind "acc"
                 \* (the buffer) or "win" (a fallback window), its first and
                 \* last paragraph, and the window start

chunkVars == <<docs, chunkSize, overlap, chunks, globalId, docIndex, paragraphs,
               paraIdx, currentChunk, currentStart, charPos, pos, pc, bufferFirst,
               origin>>

(***************************************************************************)
(* State of one call of bm25Search.                                        *)
(***************************************************************************)
VARIABLES
  sChunks,       \* the chunks argument
  query,         \* the query argument
  topK,          \* the topK argument
  index,         \* what buildIndex returned: tf, df, docLengths, avgdl, N
  queryTerms,    \* the distinct query terms, in order of first occurrence
  scored,        \* the scored chunks mapped so far
  result,        \* the list the call returns
  spc            \* where the call is: "start", "score", "done"

searchVars == <<sChunks, query, topK, index, queryTerms, scored, result, spc>>

(***************************************************************************)
(* State of the search route: the requests the server has received.        *)
(***************************************************************************)
VARIABLES
  reqBody,       \* for each request, the JSON body it was posted with
  reqPc,         \* where its handler is: "pending" (at await req.json()),
                 \* "chunking", "searching", "responded"
  responses,     \* for each request, the response the handler returned
  running,       \* the request whose handler is on the call stack, or 0
  served         \* history: the requests in the order they were answered

routeVars == <<reqBody, reqPc, responses, running, served>>

(***************************************************************************)
(* State of the page: the RagDemo component and its runPipeline calls.     *)
(***************************************************************************)
VARIABLES
  uiQuery,       \* the query state
  uiDocCount,    \* docs.length
  stage,         \* the stage state
  uiError,       \* the error state
  answer,        \* the answer state: the texts shown, each with the run that
                 \* set it
  answerRef,     \* answerRef.current, likewise
  shown,         \* the run whose chunks and stats are shown, 0 for none
  runPc,         \* for each runPipeline call, the await it is at: "new" (not
                 \* called), "timer1", "fetchSearch", "jsonSearch", "timer2",
                 \* "fetchAnswer", "reading", or "returned", "threw"
  runReads       \* for each call, the reads of the answer stream so far

uiVars == <<uiQuery, uiDocCount, stage, uiError, answer, answerRef, shown, runPc,
            runReads>>

(***************************************************************************)
(* State of one response stream of the answer route.                       *)
(***************************************************************************)
VARIABLES
  variant,       \* which route file runs: "fetch" (the upstream body is read
                 \* and parsed by the route) or "sdk" (the SDK's stream is
                 \* iterated), "none" when no stream runs
  upEvents,      \* the events the upstream sends, by kind
  upPos,         \* how much of the upstream the route has received: bytes
                 \* of the body ("fetch"), events ("sdk")
  decPending,    \* the bytes the TextDecoder holds back for the next decode
  lineBuffer,    \* the buffer local of start()
  out,           \* the events enqueued on the response stream
  closed,        \* controller.close() has been called
  sawPartLine,   \* history: a read has ended inside a line
  sawPartChar    \* history: a read has ended inside a character

streamVars == <<variant, upEvents, upPos, decPending, lineBuffer, out, closed,
                sawPartLine, sawPartChar>>

\* the state outside the two library calls
outerVars == <<routeVars, uiVars, streamVars>>

\* the state the search route leaves alone, beside the library calls
notRouteVars == <<uiVars, streamVars>>

\* the state the page leaves alone
notUiVars == <<chunkVars, searchVars, routeVars, streamVars>>

\* the state the answer route leaves alone
notStreamVars == <<chunkVars, searchVars, routeVars, uiVars>>

vars == <<chunkVars, searchVars, outerVars>>

\* the model follows a call until it has pushed this many chunks; a call
\* with a positive window step pushes at most one chunk per character
MaxChunks == Max(MaxLen, MaxTotalLen) + 2

\* the documents of a request: a named text per position
Doc(i, t) == [name |-> DocNames[i], text |-> t]

\* the requests of at most k documents, numbered from i, whose texts hold at
\* most budget characters together
RECURSIVE DocSeqs(_, _, _)
DocSeqs(i, k, budget) ==
  IF k = 0 THEN {<<>>}
  ELSE {<<>>} \cup
       UNION {{<<Doc(i, t)>> \o rest : rest \in DocSeqs(i + 1, k - 1, budget - Len(t))}
              : t \in Texts(budget)}

\* a chunk as chunkDocuments pushes it
MkChunk(id, text, di, name, start) ==
  [id |-> id, text |-> text, docIndex |-> di, docName |-> name, startChar |-> start]

\* a candidateLength that forgets the two characters of the separator
CandidateLengthNoSeparator(cur, para) ==
  IF cur # <<>> THEN Len(cur) + Len(para) ELSE Len(para)

\* a candidateLength that counts one character too many for the joined buffer
CandidateLengthOneMore(cur, para) ==
  IF cur # <<>> THEN Len(cur) + 3 + Len(para) ELSE Len(para)

\* candidateLength of the paragraph loop
CandidateLength(cur, para) ==
  IF cur # <<>> THEN Len(cur) + 2 + Len(para) ELSE Len(para)

\* currentChunk += "\n\n" + para
JoinParagraph(cur, para) == cur \o <<"\n", "\n">> \o para

\* the slice the fallback loop pushes at window start p
WindowSlice(para, p, size) == Slice(para, p, p + size)

\* a window step that is one character too long
NextPosSkipping(p, size, ov) == p + (size - ov) + 1

\* pos += chunkSize - overlap
NextPos(p, size, ov) == p + (size - ov)

\* an id counter that is never advanced
NextIdStuck(id) == id

\* globalId++
NextId(id) == id + 1

\* the paragraph the for-of loop is at
para == paragraphs[paraIdx]

\* the document the forEach callback is running for
doc == docs[docIndex + 1]

\* no search is running
NoIndex == [tf |-> <<>>, df |-> <<>>, docLengths |-> <<>>, totalLength |-> 0, N |-> 0]

SearchIdle ==
  /\ sChunks = <<>>
  /\ query = <<>>
  /\ topK = 0
  /\ index = NoIndex
  /\ queryTerms = <<>>
  /\ scored = <<>>
  /\ result = <<>>
  /\ spc = "idle"

\* the server has received no request
RouteIdle ==
  /\ reqBody = <<>>
  /\ reqPc = <<>>
  /\ responses = <<>>
  /\ running = 0
  /\ served = <<>>

\* setError(null)
NoError == "null"

\* the page is not mounted
UiIdle ==
  /\ uiQuery = <<>>
  /\ uiDocCount = 0
  /\ stage = "idle"
  /\ uiError = NoError
  /\ answer = <<>>
  /\ answerRef = <<>>
  /\ shown = 0
  /\ runPc = <<>>
  /\ runReads = <<>>

\* no response stream runs
StreamIdle ==
  /\ variant = "none"
  /\ upEvents = <<>>
  /\ upPos = 0
  /\ decPending = <<>>
  /\ lineBuffer = <<>>
  /\ out = <<>>
  /\ closed = FALSE
  /\ sawPartLine = FALSE
  /\ sawPartChar = FALSE

OuterIdle == RouteIdle /\ UiIdle /\ StreamIdle

InitCall(requests, sizes) ==
  /\ docs \in requests
  /\ chunkSize \in sizes
  /\ overlap \in 0..(chunkSize + 1)
  /\ chunks = <<>>
  /\ globalId = 0
  /\ docIndex = 0
  /\ paragraphs = <<>>
  /\ paraIdx = 1
  /\ currentChunk = <<>>
  /\ currentStart = 0
  /\ charPos = 0
  /\ pos = 0
  /\ pc = "doc"
  /\ bufferFirst = 1
  /\ origin = <<>>
  /\ SearchIdle
  /\ OuterIdle

\* one document of up to MaxLen characters (or none)
Init == InitCall(DocSeqs(1, 1, MaxLen), 1..MaxLen)

\* one document of up to MaxFairLen characters (or none)
InitFair == InitCall(DocSeqs(1, 1, MaxFairLen), 1..MaxFairLen)

\* up to MaxDocs documents of up to MaxTotalLen characters together
InitDocs == InitCall(DocSeqs(1, MaxDocs, MaxTotalLen), 1..MaxTotalLen)

\* docs.forEach callback entry: trim, skip a blank document, split
BeginDoc ==
  /\ pc = "doc"
  /\ docIndex < Len(docs)
  /\ LET text == Trim(doc.text)
     IN IF text = <<>>
        THEN /\ docIndex' = docIndex + 1
             /\ UNCHANGED <<paragraphs, pc>>
        ELSE /\ paragraphs' = Paragraphs(text)
             /\ pc' = "para"
             /\ UNCHANGED docIndex
  /\ paraIdx' = 1
  /\ currentChunk' = <<>>
  /\ currentStart' = 0
  /\ charPos' = 0
  /\ bufferFirst' = 1
  /\ UNCHANGED <<docs, chunkSize, overlap, chunks, globalId, pos, origin>>
  /\ UNCHANGED <<searchVars, outerVars>>

\* the chunks and history after flushing the buffer, if it is not empty
FlushedChunks ==
  IF currentChunk # <<>>
  THEN Append(chunks, MkChunk(globalId, currentChunk, docIndex, doc.name, currentStart))
  ELSE chunks

FlushedOrigin ==
  IF currentChunk # <<>>
  THEN Append(origin, [kind |-> "acc", first |-> bufferFirst,
                       last |-> paraIdx - 1, pos |-> 0])
  ELSE origin

FlushedId == IF currentChunk # <<>> THEN NextId(globalId) ELSE globalId

\* one iteration of the for-of loop over the paragraphs, up to the entry of
\* the fallback loop when the paragraph is longer than chunkSize
Paragraph ==
  /\ pc = "para"
  /\ paraIdx <= Len(paragraphs)
  /\ IF CandidateLength(currentChunk, para) <= chunkSize
     THEN /\ IF currentChunk # <<>>
             THEN /\ currentChunk' = JoinParagraph(currentChunk, para)
                  /\ UNCHANGED <<currentStart, bufferFirst>>
             ELSE /\ currentStart' = charPos
                  /\ currentChunk' = para
                  /\ bufferFirst' = paraIdx
          /\ charPos' = charPos + Len(para) + 2
          /\ paraIdx' = paraIdx + 1
          /\ UNCHANGED <<chunks, globalId, origin, pos, pc>>
     ELSE /\ chunks' = FlushedChunks
          /\ origin' = FlushedOrigin
          /\ globalId' = FlushedId
          /\ IF Len(para) > chunkSize
             THEN /\ pos' = 0
                  /\ pc' = "window"
                  /\ UNCHANGED <<currentChunk, currentStart, charPos, paraIdx,
                                 bufferFirst>>
             ELSE /\ currentStart' = charPos
                  /\ currentChunk' = para
                  /\ bufferFirst' = paraIdx
                  /\ charPos' = charPos + Len(para) + 2
                  /\ paraIdx' = paraIdx + 1
                  /\ UNCHANGED <<pos, pc>>
  /\ UNCHANGED <<docs, chunkSize, overlap, docIndex, paragraphs>>
  /\ UNCHANGED <<searchVars, outerVars>>

\* one iteration of while (pos < para.length)
Window ==
  /\ pc = "window"
  /\ pos < Len(para)
  /\ Len(chunks) < MaxChunks
  /\ chunks' = Append(chunks, MkChunk(globalId, WindowSlice(para, pos, chunkSize),
                                      docIndex, doc.name, charPos + pos))
  /\ origin' = Append(origin, [kind |-> "win", first |-> paraIdx,
                                last |-> paraIdx, pos |-> pos])
  /\ globalId' = NextId(globalId)
  /\ pos' = NextPos(pos, chunkSize, overlap)
  /\ UNCHANGED <<docs, chunkSize, overlap, docIndex, paragraphs, paraIdx,
                 currentChunk, currentStart, charPos, pc, bufferFirst>>
  /\ UNCHANGED <<searchVars, outerVars>>

\* the exit of the fallback loop and the end of that for-of iteration
WindowExit ==
  /\ pc = "window"
  /\ ~(pos < Len(para))
  /\ currentChunk' = <<>>
  /\ currentStart' = charPos + Len(para)
  /\ charPos' = charPos + Len(para) + 2
  /\ paraIdx' = paraIdx + 1
  /\ pos' = 0
  /\ pc' = "para"
  /\ bufferFirst' = paraIdx + 1
  /\ UNCHANGED <<docs, chunkSize, overlap, chunks, globalId, docIndex, paragraphs, origin>>
  /\ UNCHANGED <<searchVars, outerVars>>

\* after the last paragraph: flush the remaining buffer, next document
EndDoc ==
  /\ pc = "para"
  /\ paraIdx > Len(paragraphs)
  /\ chunks' = FlushedChunks
  /\ origin' = FlushedOrigin
  /\ globalId' = FlushedId
  /\ docIndex' = docIndex + 1
  /\ paragraphs' = <<>>
  /\ paraIdx' = 1
  /\ currentChunk' = <<>>
  /\ currentStart' = 0
  /\ charPos' = 0
  /\ bufferFirst' = 1
  /\ pc' = "doc"
  /\ UNCHANGED <<docs, chunkSize, overlap, pos>>
  /\ UNCHANGED <<searchVars, outerVars>>

\* return chunks
Return ==
  /\ pc = "doc"
  /\ docIndex = Len(docs)
  /\ pc' = "done"
  /\ UNCHANGED <<docs, chunkSize, overlap, chunks, globalId, docIndex, paragraphs,
                 paraIdx, currentChunk, currentStart, charPos, pos, bufferFirst,
                 origin>>
  /\ UNCHANGED <<searchVars, outerVars>>

Next ==
  \/ BeginDoc
  \/ Paragraph
  \/ Window
  \/ WindowExit
  \/ EndDoc
  \/ Return

Spec == Init /\ [][Next]_vars

SpecDocs == InitDocs /\ [][Next]_vars

\* the runtime runs the synchronous call to completion: a step that can be
\* taken is taken
FairSpec == InitFair /\ [][Next]_vars /\ WF_vars(Next)

(***************************************************************************)
(* Vocabulary of the chunker's properties.                                 *)
(***************************************************************************)
\* a window step that advances: 0 <= overlap < chunkSize
ValidConfig == overlap < chunkSize

\* the paragraphs joined by a blank line
RECURSIVE JoinAll(_)
JoinAll(ps) ==
  IF ps = <<>> THEN <<>>
  ELSE IF Len(ps) = 1 THEN ps[1]
  ELSE ps[1] \o <<"\n", "\n">> \o JoinAll(Tail(ps))

\* the paragraphs of document d (from 0), as the chunker reads them
DocParagraphs(d) == Paragraphs(Trim(docs[d + 1].text))

\* the positions in chunks of the chunks of document d, and of the fallback
\* windows of its paragraph p
ChunksOf(d) == {i \in 1..Len(chunks) : chunks[i].docIndex = d}
WindowsOf(d, p) == {i \in ChunksOf(d) : origin[i].kind = "win" /\ origin[i].first = p}

\* chunks i and i+1 are consecutive fallback windows of one paragraph
SameParagraphWindows(i) ==
  /\ chunks[i].docIndex = chunks[i + 1].docIndex
  /\ origin[i].kind = "win" /\ origin[i + 1].kind = "win"
  /\ origin[i].first = origin[i + 1].first

\* chunk i holds text of the document it names: the buffer holds consecutive
\* whole paragraphs of it, a window a stretch of one paragraph of it
CutFromItsDocument(i) ==
  LET c == chunks[i]
      o == origin[i]
  IN /\ c.docIndex \in 0..(Len(docs) - 1)
     /\ c.docName = docs[c.docIndex + 1].name
     /\ LET ps == DocParagraphs(c.docIndex)
        IN /\ 1 <= o.first /\ o.first <= o.last /\ o.last <= Len(ps)
           /\ IF o.kind = "acc"
              THEN c.text = JoinAll(SubSeq(ps, o.first, o.last))
              ELSE /\ c.text # <<>>
                   /\ o.pos >= 0
                   /\ o.pos + Len(c.text) <= Len(ps[o.first])
                   /\ c.text = SubSeq(ps[o.first], o.pos + 1, o.pos + Len(c.text))

\* chunk i+1 follows chunk i in reading order
InReadingOrder(i) ==
  \/ chunks[i].docIndex < chunks[i + 1].docIndex
  \/ /\ chunks[i].docIndex = chunks[i + 1].docIndex
     /\ \/ origin[i].last < origin[i + 1].first
        \/ SameParagraphWindows(i) /\ origin[i].pos < origin[i + 1].pos

\* C1: the chunks a call returns carry the ids 0..n-1 in list order, each
\* names the one document its text was cut from, and they are in document
\* order, then in reading order within the document.
C1_IdsAndDocumentOrder ==
  pc = "done" =>
    /\ \A i \in 1..Len(chunks) : chunks[i].id = i - 1
    /\ \A i \in 1..Len(chunks) : CutFromItsDocument(i)
    /\ \A i \in 1..(Len(chunks) - 1) : InReadingOrder(i)

\* a returned list with chunks of two documents, a blank document skipped,
\* and two chunks of one document
C1_Witness ==
  /\ pc = "done"
  /\ \E d \in 1..Len(docs) : Trim(docs[d].text) = <<>>
  /\ \E i, j \in 1..Len(chunks) : i < j /\ chunks[i].docIndex = chunks[j].docIndex
  /\ \E i \in 1..Len(chunks) : chunks[i].docIndex > 0

\* C2: with overlap >= chunkSize the call is rejected at its entry, before any
\* chunk is emitted: no chunk is ever pushed.
C2_InvalidConfigRejected ==
  overlap >= chunkSize => chunks = <<>>

\* C3: every call of chunkDocuments eventually finishes.
C3_Terminates == <>(pc = "done")

\* the text of chunk i without the characters the previous window of the same
\* paragraph already holds
FreshText(i) ==
  IF origin[i].kind = "win" /\ origin[i].pos > 0
  THEN Slice(chunks[i].text, Min(overlap, Len(chunks[i].text)), Len(chunks[i].text))
  ELSE chunks[i].text

\* the chunks of document d from position i on, joined: windows of one
\* paragraph run on, everything else is a paragraph break apart
RECURSIVE Rejoin(_, _, _)
Rejoin(d, i, prev) ==
  IF i > Len(chunks) THEN <<>>
  ELSE IF chunks[i].docIndex # d THEN Rejoin(d, i + 1, prev)
  ELSE (IF prev = 0 \/ (prev = i - 1 /\ SameParagraphWindows(prev))
        THEN <<>> ELSE <<"\n", "\n">>)
       \o FreshText(i) \o Rejoin(d, i + 1, i)

\* C4: with 0 <= overlap < chunkSize the chunks of every document, joined in
\* order without the overlapped prefix of the fallback windows, are the
\* document's trimmed paragraphs: nothing is omitted or reordered.
C4_Coverage ==
  (pc = "done" /\ ValidConfig) =>
    \A d \in 0..(Len(docs) - 1) : Rejoin(d, 1, 0) = JoinAll(DocParagraphs(d))

\* a finished call that flushed a buffer and cut overlapping windows
C4_Witness ==
  /\ pc = "done" /\ ValidConfig /\ overlap > 0
  /\ \E i \in 1..Len(chunks) : origin[i].kind = "acc"
  /\ \E i \in 1..Len(chunks) : origin[i].kind = "win" /\ origin[i].pos > 0

\* C5: every chunk pushed, from the buffer or from the fallback, has at most
\* chunkSize characters.
C5_ChunkSizeBound ==
  \A i \in 1..Len(chunks) : Len(chunks[i].text) <= chunkSize

\* a buffer of two joined paragraphs that fills chunkSize exactly
C5_WitnessJoined ==
  \E i \in 1..Len(chunks) :
    /\ origin[i].kind = "acc" /\ origin[i].first < origin[i].last
    /\ Len(chunks[i].text) = chunkSize

\* the least integer >= a / b, for b > 0
CeilDiv(a, b) == IF a <= 0 THEN 0 ELSE ((a + b - 1) \div b)

\* C6: a paragraph of length L > chunkSize is cut into exactly
\* ceil((L - overlap) / (chunkSize - overlap)) windows.
C6_WindowCount ==
  (pc = "done" /\ ValidConfig) =>
    \A d \in 0..(Len(docs) - 1) :
      \A p \in 1..Len(DocParagraphs(d)) :
        Len(DocParagraphs(d)[p]) > chunkSize =>
          Cardinality(WindowsOf(d, p)) =
            CeilDiv(Len(DocParagraphs(d)[p]) - overlap, chunkSize - overlap)

\* the last n characters and the first n characters of a text
Suffix(t, n) == Slice(t, Len(t) - n, Len(t))
Prefix(t, n) == Slice(t, 0, n)

\* window i+1 is the last window of its paragraph
IsFinalWindow(i) == i = Len(chunks) \/ ~SameParagraphWindows(i)

\* C7: consecutive windows of one paragraph share exactly overlap characters,
\* except the pair that ends in the paragraph's final window.
C7_ExactOverlap ==
  (pc = "done" /\ ValidConfig) =>
    \A i \in 1..(Len(chunks) - 1) :
      (SameParagraphWindows(i) /\ ~IsFinalWindow(i + 1)) =>
        /\ Len(chunks[i].text) >= overlap
        /\ Len(chunks[i + 1].text) >= overlap
        /\ Suffix(chunks[i].text, overlap) = Prefix(chunks[i + 1].text, overlap)

\* C8: every chunk pushed has text that is not empty after trimming; stated
\* here for the configurations with 0 <= overlap < chunkSize, where every
\* window starts inside the paragraph.
C8_NonBlankText ==
  ValidConfig => \A i \in 1..Len(chunks) : Trim(chunks[i].text) # <<>>

(***************************************************************************)
(* bm25Search: tokenizer, index, scoring, ranking.                         *)
(***************************************************************************)
\* most chunks of one search call
MaxSearchChunks == 3
\* the topK values of the model are -MaxTopK .. MaxTopK
MaxTopK == 2

UpperCase == <<"A", "B", "C", "D", "E", "F", "G", "H", "I", "J", "K", "L", "M",
               "N", "O", "P", "Q", "R", "S", "T", "U", "V", "W", "X", "Y", "Z">>
LowerCase == <<"a", "b", "c", "d", "e", "f", "g", "h", "i", "j", "k", "l", "m",
               "n", "o", "p", "q", "r", "s", "t", "u", "v", "w", "x", "y", "z">>
Digits == {"0", "1", "2", "3", "4", "5", "6", "7", "8", "9"}

\* the lower-case letter of each upper-case letter
LowerOf == [c \in {UpperCase[i] : i \in 1..26} |->
              LowerCase[CHOOSE i \in 1..26 : UpperCase[i] = c]]

\* the characters the replace keeps: [a-z0-9\s]
WordOrSpace == {LowerCase[i] : i \in 1..26} \cup Digits \cup {" ", "\n"}

\* String.prototype.toLowerCase, one character
ToLowerCase(c) == IF c \in DOMAIN LowerOf THEN LowerOf[c] ELSE c

\* .replace(/[^a-z0-9\s]/g, " "), one character
ReplaceNonWord(c) == IF c \in WordOrSpace THEN c ELSE " "

\* the index of the last character of the white-space run that starts at i
RECURSIVE SpaceRunEnd(_, _)
SpaceRunEnd(s, i) ==
  IF i < Len(s) /\ IsSpace(s[i + 1]) THEN SpaceRunEnd(s, i + 1) ELSE i

\* .split(/\s+/): the pieces between white-space runs, empty pieces at the
\* ends included
RECURSIVE SplitSpaceFrom(_, _, _)
SplitSpaceFrom(s, i, cur) ==
  IF i > Len(s) THEN <<cur>>
  ELSE IF IsSpace(s[i])
       THEN <<cur>> \o SplitSpaceFrom(s, SpaceRunEnd(s, i) + 1, <<>>)
       ELSE SplitSpaceFrom(s, i + 1, Append(cur, s[i]))

\* the shortest token the filter keeps is one character longer than this
ShortToken == 2

LongEnough(t) == Len(t) > ShortToken

\* tokenize
Tokenize(text) ==
  LET cleaned == [i \in 1..Len(text) |-> ReplaceNonWord(ToLowerCase(text[i]))]
  IN SelectSeq(SplitSpaceFrom(cleaned, 1, <<>>), LongEnough)

Range(f) == {f[i] : i \in DOMAIN f}

\* the tokens as they come, repeats kept
KeepRepeats(ts) == ts

\* [...new Set(tokens)]: the distinct tokens in order of first occurrence
RECURSIVE Distinct(_)
Distinct(ts) ==
  IF ts = <<>> THEN <<>>
  ELSE LET init == SubSeq(ts, 1, Len(ts) - 1)
           last == ts[Len(ts)]
       IN IF last \in Range(init) THEN Distinct(init)
          ELSE Append(Distinct(init), last)

\* the count tf[i] holds for a token after the forEach over the chunk's tokens
CountOf(tokens, t) == Cardinality({k \in 1..Len(tokens) : tokens[k] = t})

\* buildIndex
BuildIndex(cs) ==
  LET toks == [i \in 1..Len(cs) |-> Tokenize(cs[i].text)]
      terms == UNION {Range(toks[i]) : i \in 1..Len(cs)}
      RECURSIVE Sum(_)
      Sum(i) == IF i = 0 THEN 0 ELSE Len(toks[i]) + Sum(i - 1)
  IN [tf |-> [i \in 1..Len(cs) |-> [t \in Range(toks[i]) |-> CountOf(toks[i], t)]],
      df |-> [t \in terms |-> Cardinality({i \in 1..Len(cs) : t \in Range(toks[i])})],
      docLengths |-> [i \in 1..Len(cs) |-> Len(toks[i])],
      totalLength |-> Sum(Len(cs)),
      N |-> Len(cs)]

\* a lookup that defaults to 1 for a term the chunk does not hold
TfGetDefaultOne(i, term) == IF term \in DOMAIN index.tf[i] THEN index.tf[i][term] ELSE 1

\* tf[i].get(term) ?? 0
TfGet(i, term) == IF term \in DOMAIN index.tf[i] THEN index.tf[i][term] ELSE 0

\* df.get(term) ?? 0
DfGet(term) == IF term \in DOMAIN index.df THEN index.df[term] ELSE 0

\* scores are kept in units of 1/100000: Math.log of the integers 1..16 in
\* these units, rounded down
LnTable == <<0, 69314, 109861, 138629, 160943, 179175, 194591, 207944, 219722, 230258, 239789, 248490, 256494, 263905, 270805, 277258>>

\* Math.log(n / d) for integers n, d
Ln(n, d) == LnTable[n] - LnTable[d]

\* k1 = 1.5 and b = 0.75, as fractions
K1Num == 3
K1Den == 2
BNum == 3
BDen == 4

\* the textbook idf, Math.log((N - termDf + 0.5) / (termDf + 0.5)), without
\* the + 1
IdfTextbook(n, termDf) == Ln(2 * (n - termDf) + 1, 2 * termDf + 1)

\* idf = Math.log((N - termDf + 0.5) / (termDf + 0.5) + 1); the argument is
\* (N + 1) / (termDf + 0.5) = (2N + 2) / (2 termDf + 1)
Idf(n, termDf) == Ln(2 * (n - termDf) + 1 + (2 * termDf + 1), 2 * termDf + 1)

\* tfNorm = termTf (k1 + 1) / (termTf + k1 (1 - b + b (dl / avgdl))) with
\* avgdl = totalLength / N, as a fraction: numerator and denominator are both
\* multiplied by K1Den * BDen * totalLength
TfNormNum(termTf, total) == termTf * (K1Num + K1Den) * BDen * total
TfNormDen(termTf, dl, total, n) ==
  termTf * K1Den * BDen * total + K1Num * ((BDen - BNum) * total + BNum * dl * n)

\* idf * tfNorm
TermScore(termTf, termDf, dl, total, n) ==
  (Idf(n, termDf) * TfNormNum(termTf, total)) \div TfNormDen(termTf, dl, total, n)

\* queryTerms.forEach for chunk i, from query term k on: the score and the
\* matched terms accumulated
RECURSIVE ScoreFrom(_, _, _, _)
ScoreFrom(i, k, score, matched) ==
  IF k > Len(queryTerms) THEN [score |-> score, termMatches |-> matched]
  ELSE LET term == queryTerms[k]
           termTf == TfGet(i, term)
           termDf == DfGet(term)
       IN IF termDf = 0 THEN ScoreFrom(i, k + 1, score, matched)
          ELSE ScoreFrom(i, k + 1,
                 score + TermScore(termTf, termDf, index.docLengths[i],
                                   index.totalLength, index.N),
                 IF termTf > 0 THEN Append(matched, term) ELSE matched)

\* the ScoredChunk the map callback returns for chunk i
ScoredChunk(i) ==
  LET r == ScoreFrom(i, 1, 0, <<>>)
  IN [id |-> sChunks[i].id, text |-> sChunks[i].text, docIndex |-> sChunks[i].docIndex,
      docName |-> sChunks[i].docName, startChar |-> sChunks[i].startChar,
      score |-> r.score, termMatches |-> r.termMatches]

\* a filter that keeps the chunks of score 0 too
NotNegative(c) == c.score >= 0

\* .filter((c) => c.score > 0)
Positive(c) == c.score > 0

\* an insertion that puts an element in front of the elements of equal score
RECURSIVE InsertBeforeEqual(_, _)
InsertBeforeEqual(sorted, c) ==
  IF sorted = <<>> THEN <<c>>
  ELSE IF Head(sorted).score - c.score <= 0 THEN <<c>> \o sorted
  ELSE <<Head(sorted)>> \o InsertBeforeEqual(Tail(sorted), c)

\* .sort((a, b) => b.score - a.score): the sort is stable, so an element goes
\* behind the elements that do not score less
RECURSIVE InsertByScore(_, _)
InsertByScore(sorted, c) ==
  IF sorted = <<>> THEN <<c>>
  ELSE IF Head(sorted).score - c.score < 0 THEN <<c>> \o sorted
  ELSE <<Head(sorted)>> \o InsertByScore(Tail(sorted), c)

RECURSIVE SortByScore(_)
SortByScore(cs) ==
  IF cs = <<>> THEN <<>>
  ELSE InsertByScore(SortByScore(SubSeq(cs, 1, Len(cs) - 1)), cs[Len(cs)])

\* .slice(0, topK)
TopSlice(cs, k) == Slice(cs, 0, k)

\* the texts of the model's chunks and queries
T_short == <<" ", "i", "s", " ", "a", "\n">>
T_catcat == <<"C", "a", "t", ",", " ", "c", "a", "t", "!">>
T_catdog == <<"c", "a", "t", " ", "d", "o", "g">>
T_dogemu == <<"d", "o", "g", " ", "e", "m", "u">>

SearchTexts == {T_short, T_catcat, T_catdog, T_dogemu}

Q_short == <<"i", "s", " ", "a", " ", "a", "n">>
Q_punct == <<"?", "!">>
Q_dog == <<"d", "o", "g", "?">>
Q_catcatdog == <<"C", "A", "T", " ", "c", "a", "t", " ", "d", "o", "g">>
Q_owlemu == <<"o", "w", "l", " ", "e", "m", "u">>

Queries == {Q_short, Q_punct, Q_dog, Q_catcatdog, Q_owlemu}

\* the chunk lists of up to n chunks, as chunkDocuments numbers them
ChunkLists(n) ==
  UNION {{[i \in 1..k |-> MkChunk(i - 1, ts[i], 0, DocNames[1], 0)] :
          ts \in [1..k -> SearchTexts]} : k \in 0..n}

\* no chunking call is running
ChunkerIdle ==
  /\ docs = <<>>
  /\ chunkSize = 1
  /\ overlap = 0
  /\ chunks = <<>>
  /\ globalId = 0
  /\ docIndex = 0
  /\ paragraphs = <<>>
  /\ paraIdx = 1
  /\ currentChunk = <<>>
  /\ currentStart = 0
  /\ charPos = 0
  /\ pos = 0
  /\ pc = "idle"
  /\ bufferFirst = 1
  /\ origin = <<>>

InitSearch ==
  /\ ChunkerIdle
  /\ OuterIdle
  /\ sChunks \in ChunkLists(MaxSearchChunks)
  /\ query \in Queries
  /\ topK \in (0 - MaxTopK)..MaxTopK
  /\ index = NoIndex
  /\ queryTerms = <<>>
  /\ scored = <<>>
  /\ result = <<>>
  /\ spc = "start"

\* if (chunks.length === 0) return []
SearchNothing ==
  /\ spc = "start"
  /\ Len(sChunks) = 0
  /\ result' = <<>>
  /\ spc' = "done"
  /\ UNCHANGED <<sChunks, query, topK, index, queryTerms, scored>>
  /\ UNCHANGED <<chunkVars, outerVars>>

\* buildIndex(chunks) and the distinct query terms
IndexChunks ==
  /\ spc = "start"
  /\ Len(sChunks) # 0
  /\ index' = BuildIndex(sChunks)
  /\ queryTerms' = Distinct(Tokenize(query))
  /\ spc' = "score"
  /\ UNCHANGED <<sChunks, query, topK, scored, result>>
  /\ UNCHANGED <<chunkVars, outerVars>>

\* one call of the chunks.map callback
ScoreChunk ==
  /\ spc = "score"
  /\ Len(scored) < Len(sChunks)
  /\ scored' = Append(scored, ScoredChunk(Len(scored) + 1))
  /\ UNCHANGED <<sChunks, query, topK, index, queryTerms, result, spc>>
  /\ UNCHANGED <<chunkVars, outerVars>>

\* filter, sort, slice, return
Rank ==
  /\ spc = "score"
  /\ Len(scored) = Len(sChunks)
  /\ result' = TopSlice(SortByScore(SelectSeq(scored, Positive)), topK)
  /\ spc' = "done"
  /\ UNCHANGED <<sChunks, query, topK, index, queryTerms, scored>>
  /\ UNCHANGED <<chunkVars, outerVars>>

NextSearch ==
  \/ SearchNothing
  \/ IndexChunks
  \/ ScoreChunk
  \/ Rank

SpecSearch == InitSearch /\ [][NextSearch]_vars

(***************************************************************************)
(* Properties of bm25Search.                                               *)
(***************************************************************************)
\* C9: the list a search returns holds at most topK chunks (none when topK
\* is zero or negative), and every chunk in it has a score above 0.
C9_TopKBound ==
  spc = "done" =>
    /\ Len(result) <= Max(topK, 0)
    /\ \A r \in 1..Len(result) : result[r].score > 0

\* chunk i holds none of the query's terms, by the tokenizer alone
HoldsNoQueryTerm(i) ==
  \A t \in Range(Tokenize(sChunks[i].text)) : t \notin Range(Tokenize(query))

\* C10: a chunk that holds none of the query's terms is scored exactly 0,
\* matches no term, and is not in the returned list.
C10_ZeroTermExcluded ==
  \A i \in 1..Len(scored) :
    HoldsNoQueryTerm(i) =>
      /\ scored[i].score = 0
      /\ scored[i].termMatches = <<>>
      /\ spc = "done" => \A r \in 1..Len(result) : result[r].id # sChunks[i].id

\* a finished search that returned a chunk, over a list with a chunk of no
\* tokens and a chunk of other tokens, neither holding a query term
C10_Witness ==
  /\ spc = "done"
  /\ result # <<>>
  /\ \E i \in 1..Len(scored) : HoldsNoQueryTerm(i) /\ index.docLengths[i] = 0
  /\ \E i \in 1..Len(scored) : HoldsNoQueryTerm(i) /\ index.docLengths[i] > 0

\* the query terms the forEach does not skip: those some chunk holds
ScoredTerms == {k \in 1..Len(queryTerms) : DfGet(queryTerms[k]) > 0}

\* C11: every chunk's score is >= 0: the idf of every scored term is >= 0,
\* also when every chunk holds the term, and every tfNorm is a fraction of a
\* numerator >= 0 over a denominator > 0, on a positive average length, also
\* for a chunk of no tokens; in a corpus of average length 0 no term is
\* scored and every score is 0.
C11_NonNegativeScores ==
  /\ \A i \in 1..Len(scored) : scored[i].score >= 0
  /\ \A k \in ScoredTerms :
       /\ Idf(index.N, DfGet(queryTerms[k])) >= 0
       /\ index.totalLength > 0
       /\ \A i \in 1..index.N :
            /\ TfNormNum(TfGet(i, queryTerms[k]), index.totalLength) >= 0
            /\ TfNormDen(TfGet(i, queryTerms[k]), index.docLengths[i],
                         index.totalLength, index.N) > 0
            /\ TermScore(TfGet(i, queryTerms[k]), DfGet(queryTerms[k]),
                         index.docLengths[i], index.totalLength, index.N) >= 0
  /\ (spc # "start" /\ index.totalLength = 0) =>
       /\ ScoredTerms = {}
       /\ \A i \in 1..Len(scored) : scored[i].score = 0

\* a finished search of two or more chunks that all hold a query term
C11_WitnessEveryChunk ==
  /\ spc = "done"
  /\ index.N >= 2
  /\ \E k \in ScoredTerms : DfGet(queryTerms[k]) = index.N
  /\ \A i \in 1..Len(scored) : scored[i].score > 0

\* the place of chunk i of the input in the returned list, 0 when it is not
\* returned
PlaceOf(i) ==
  IF \E r \in 1..Len(result) : result[r].id = sChunks[i].id
  THEN CHOOSE r \in 1..Len(result) : result[r].id = sChunks[i].id
  ELSE 0

\* chunks i and j have as many tokens and hold the only query term once
SingleTermTwins(i, j) ==
  /\ Len(queryTerms) = 1
  /\ index.docLengths[i] = index.docLengths[j]
  /\ TfGet(i, queryTerms[1]) = 1
  /\ TfGet(j, queryTerms[1]) = 1

\* C12: the returned list is in order of non-increasing score, chunks of equal
\* score in their input order (increasing id); two chunks of as many tokens
\* that hold the only query term once have one and the same score above 0,
\* and the earlier is returned before the later.
C12_StableDescending ==
  spc = "done" =>
    /\ \A r \in 1..(Len(result) - 1) :
         /\ result[r].score >= result[r + 1].score
         /\ result[r].score = result[r + 1].score => result[r].id < result[r + 1].id
    /\ \A i, j \in 1..Len(scored) :
         (i < j /\ SingleTermTwins(i, j)) =>
           /\ scored[i].score = scored[j].score
           /\ scored[i].score > 0
           /\ PlaceOf(j) > 0 => (PlaceOf(i) > 0 /\ PlaceOf(i) < PlaceOf(j))

\* a finished search that returned two such chunks, one right after the other
C12_WitnessTie ==
  /\ spc = "done"
  /\ \E i, j \in 1..Len(scored) :
       i < j /\ SingleTermTwins(i, j) /\ PlaceOf(i) > 0 /\ PlaceOf(j) = PlaceOf(i) + 1

\* C13: for every scored chunk and every term of the query, the term is in
\* the chunk's termMatches exactly when the chunk's tokens hold it;
\* termMatches holds query terms only and none twice, also when the query
\* repeats a term.
C13_TermMatches ==
  \A i \in 1..Len(scored) :
    LET matches == scored[i].termMatches
    IN /\ \A t \in Range(Tokenize(query)) :
            t \in Range(matches) <=> t \in Range(Tokenize(sChunks[i].text))
       /\ Range(matches) \subseteq Range(Tokenize(query))
       /\ Cardinality(Range(matches)) = Len(matches)

\* a scored chunk that holds a term the query repeats and lacks another term
\* of the query
C13_WitnessRepeatedTerm ==
  \E i \in 1..Len(scored) :
    /\ \E t \in Range(scored[i].termMatches) : CountOf(Tokenize(query), t) > 1
    /\ \E t \in Range(Tokenize(query)) : t \notin Range(scored[i].termMatches)

\* the call has nothing to search: no chunk, or no term in the query
NothingToSearch == sChunks = <<>> \/ Tokenize(query) = <<>>

\* C14: a search over an empty chunk list, or with a query that tokenizes to
\* no term, returns the empty list and never fails: until it has returned,
\* its next step can be taken, and what it returns is empty.
C14_EmptyNeverFails ==
  NothingToSearch =>
    /\ result = <<>>
    /\ spc # "done" => ENABLED NextSearch
    /\ \A i \in 1..Len(scored) : scored[i].score = 0

\* a finished search with topK > 0 over chunks that hold tokens, with a query
\* of short words only
C14_WitnessShortWords ==
  /\ spc = "done"
  /\ topK > 0
  /\ index.totalLength > 0
  /\ query = Q_short
  /\ Tokenize(query) = <<>>

(***************************************************************************)
(* Further properties of chunkDocuments.                                   *)
(***************************************************************************)
\* C16: within one document the startChar values of the chunks never
\* decrease in the order the chunks are pushed, buffers and fallback windows
\* alike.
C16_StartCharMonotonic ==
  \A i \in 1..(Len(chunks) - 1) :
    chunks[i].docIndex = chunks[i + 1].docIndex =>
      chunks[i].startChar <= chunks[i + 1].startChar

\* the same, for the configurations with 0 <= overlap <= chunkSize only
StartCharMonotonicWhenNotBackward ==
  overlap <= chunkSize => C16_StartCharMonotonic

\* the paragraph loop is at a paragraph with a buffer that is not empty
AtParagraphWithBuffer ==
  pc = "para" /\ paraIdx <= Len(paragraphs) /\ currentChunk # <<>>

\* the step from there: the paragraph is joined to the buffer exactly when
\* buffer + 2 + paragraph fits chunkSize, otherwise the buffer is pushed as
\* one chunk
GreedyStep ==
  AtParagraphWithBuffer =>
    IF Len(currentChunk) + 2 + Len(paragraphs[paraIdx]) <= chunkSize
    THEN /\ currentChunk' = currentChunk \o <<"\n", "\n">> \o paragraphs[paraIdx]
         /\ chunks' = chunks
    ELSE /\ Len(chunks') = Len(chunks) + 1
         /\ SubSeq(chunks', 1, Len(chunks)) = chunks
         /\ chunks'[Len(chunks')].text = currentChunk
         /\ chunks'[Len(chunks')].startChar = currentStart

\* the chunk pushed after buffer chunk i, in the same document, starts with
\* the next paragraph, and that paragraph did not fit the buffer
CouldNotAbsorbNext(i) ==
  LET ps == DocParagraphs(chunks[i].docIndex)
      nxt == origin[i].last + 1
  IN /\ origin[i + 1].first = nxt
     /\ Len(chunks[i].text) + 2 + Len(ps[nxt]) > chunkSize

\* a document whose paragraphs, joined, fit chunkSize gives one chunk
FittingDocumentOneChunk(d) ==
  LET ps == DocParagraphs(d)
  IN (ps # <<>> /\ Len(JoinAll(ps)) <= chunkSize) =>
       /\ Cardinality(ChunksOf(d)) = 1
       /\ \A i \in ChunksOf(d) : chunks[i].text = JoinAll(ps)

\* C17: accumulation is greedy: at a paragraph with a buffer that is not
\* empty, the paragraph is joined to the buffer by a blank line exactly when
\* buffer length + 2 + paragraph length <= chunkSize, and otherwise the
\* buffer is pushed as one chunk first; so no pushed buffer could have taken
\* the paragraph that starts the next chunk, and paragraphs that fit
\* together come out as one chunk.
C17_GreedyAccumulation ==
  /\ [][GreedyStep]_vars
  /\ [](\A i \in 1..(Len(chunks) - 1) :
          (origin[i].kind = "acc" /\ chunks[i].docIndex = chunks[i + 1].docIndex)
            => CouldNotAbsorbNext(i))
  /\ [](pc = "done" => \A d \in 0..(Len(docs) - 1) : FittingDocumentOneChunk(d))

\* a finished call on two paragraphs that fit together, returned as one chunk
C17_WitnessTwoInOne ==
  /\ pc = "done"
  /\ Len(chunks) = 1
  /\ origin[1].kind = "acc" /\ origin[1].first = 1 /\ origin[1].last = 2
  /\ paraIdx = 1

(***************************************************************************)
(* The search route: POST /api/rag/search.  The handler awaits the body    *)
(* and then runs to its return without another await, so the handlers of   *)
(* concurrent requests run one after the other, in any order.              *)
(***************************************************************************)
\* most requests in flight at the same time
MaxRequests == 3

\* the defaults of chunkDocuments and of the route's topK
DefaultChunkSize == 400
DefaultOverlap == 80
DefaultTopK == 5

\* the topK of a body: empty when the body has none, else the one number
NoTopK == <<>>

\* a text of two paragraphs
T_paras == <<"c", "a", "t", "\n", "\n", "d", "o", "g">>

\* the bodies the model posts
B_one == [docs |-> <<Doc(1, T_catdog)>>, query |-> Q_dog, topK |-> <<1>>]
B_two == [docs |-> <<Doc(1, T_dogemu), Doc(2, T_paras)>>, query |-> Q_dog, topK |-> NoTopK]
B_blank == [docs |-> <<Doc(1, <<" ">>)>>, query |-> Q_dog, topK |-> NoTopK]
B_nodocs == [docs |-> <<>>, query |-> Q_dog, topK |-> NoTopK]
B_noquery == [docs |-> <<Doc(1, T_catdog)>>, query |-> <<" ">>, topK |-> NoTopK]

Bodies == {B_one, B_two, B_blank, B_nodocs, B_noquery}

\* const { docs, query, topK = 5 } = await req.json()
TopKOf(body) == IF body.topK = NoTopK THEN DefaultTopK ELSE body.topK[1]

\* a counter that lives on from one call to the next
KeptGlobalId(g) == g

\* let globalId = 0: the counter is a local of the call
CallGlobalId(g) == 0

\* docs.reduce((acc, d) => acc + d.text.split(/\s+/).length, 0)
RECURSIVE TotalWords(_)
TotalWords(ds) ==
  IF ds = <<>> THEN 0
  ELSE TotalWords(SubSeq(ds, 1, Len(ds) - 1))
       + Len(SplitSpaceFrom(ds[Len(ds)].text, 1, <<>>))

\* NextResponse.json({ error }, { status: 400 })
BadRequest(msg) == [status |-> 400, error |-> msg]

\* NextResponse.json({ chunks, totalChunks, stats })
SearchResponse ==
  [status |-> 200,
   chunks |-> result,
   totalChunks |-> Len(chunks),
   stats |-> [docCount |-> Len(docs),
              totalWords |-> TotalWords(docs),
              chunkCount |-> Len(chunks),
              retrievedCount |-> Len(result),
              queryTerms |-> Distinct(Tokenize(query))]]

InitRoute ==
  /\ ChunkerIdle
  /\ SearchIdle
  /\ reqBody \in [1..MaxRequests -> Bodies]
  /\ reqPc = [r \in 1..MaxRequests |-> "pending"]
  /\ responses = [r \in 1..MaxRequests |-> <<>>]
  /\ running = 0
  /\ served = <<>>
  /\ UiIdle
  /\ StreamIdle

\* the handler of request r returns res
Answered(r, res) ==
  /\ responses' = [responses EXCEPT ![r] = res]
  /\ reqPc' = [reqPc EXCEPT ![r] = "responded"]
  /\ served' = Append(served, r)
  /\ running' = 0
  /\ UNCHANGED reqBody

\* await req.json() of request r resolves: the two checks of the body, then
\* the entry of chunkDocuments(docs) with its defaults
Enter(r) ==
  /\ running = 0
  /\ reqPc[r] = "pending"
  /\ IF Len(reqBody[r].docs) = 0
     THEN Answered(r, BadRequest("No documents provided")) /\ UNCHANGED chunkVars
     ELSE IF Trim(reqBody[r].query) = <<>>
     THEN Answered(r, BadRequest("No query provided")) /\ UNCHANGED chunkVars
     ELSE /\ running' = r
          /\ reqPc' = [reqPc EXCEPT ![r] = "chunking"]
          /\ UNCHANGED <<reqBody, responses, served>>
          /\ docs' = reqBody[r].docs
          /\ chunkSize' = DefaultChunkSize
          /\ overlap' = DefaultOverlap
          /\ chunks' = <<>>
          /\ globalId' = CallGlobalId(globalId)
          /\ docIndex' = 0
          /\ paragraphs' = <<>>
          /\ paraIdx' = 1
          /\ currentChunk' = <<>>
          /\ currentStart' = 0
          /\ charPos' = 0
          /\ pos' = 0
          /\ pc' = "doc"
          /\ bufferFirst' = 1
          /\ origin' = <<>>
  /\ UNCHANGED <<searchVars, notRouteVars>>

\* chunkDocuments has returned: the entry of bm25Search(chunks, query, topK)
CallSearch ==
  /\ running # 0
  /\ reqPc[running] = "chunking"
  /\ pc = "done"
  /\ sChunks' = chunks
  /\ query' = reqBody[running].query
  /\ topK' = TopKOf(reqBody[running])
  /\ index' = NoIndex
  /\ queryTerms' = <<>>
  /\ scored' = <<>>
  /\ result' = <<>>
  /\ spc' = "start"
  /\ reqPc' = [reqPc EXCEPT ![running] = "searching"]
  /\ UNCHANGED <<reqBody, responses, running, served>>
  /\ UNCHANGED <<chunkVars, notRouteVars>>

\* bm25Search has returned: the stats and the response
Respond ==
  /\ running # 0
  /\ reqPc[running] = "searching"
  /\ spc = "done"
  /\ Answered(running, SearchResponse)
  /\ UNCHANGED <<chunkVars, searchVars, notRouteVars>>

\* the steps of the handlers; no paragraph of the model's bodies is longer
\* than the default chunkSize, so chunkDocuments stays out of its fallback
\* loop here
NextRoute ==
  \/ \E r \in 1..MaxRequests : Enter(r)
  \/ BeginDoc
  \/ Paragraph
  \/ EndDoc
  \/ Return
  \/ CallSearch
  \/ NextSearch
  \/ Respond

SpecRoute == InitRoute /\ [][NextRoute]_vars

\* C15: concurrent search requests are independent: in whatever order the
\* handlers run, requests with equal bodies get equal responses (ids, scores,
\* order, termMatches, stats), so a request answered after others gets what
\* it gets when it is answered first; the ids in a response are the ids of
\* that call's own chunks, counted from 0.
C15_RequestsIndependent ==
  /\ \A r1, r2 \in DOMAIN reqPc :
       (reqPc[r1] = "responded" /\ reqPc[r2] = "responded" /\ reqBody[r1] = reqBody[r2])
         => responses[r1] = responses[r2]
  /\ \A r \in DOMAIN reqPc :
       (reqPc[r] = "responded" /\ responses[r].status = 200) =>
         \A k \in 1..Len(responses[r].chunks) :
           responses[r].chunks[k].id \in 0..(responses[r].totalChunks - 1)

\* three answered requests: the first and the last with one body, the one
\* between them with another, all with chunks in the response
C15_WitnessInterleaved ==
  /\ Len(served) = 3
  /\ reqBody[served[1]] = reqBody[served[3]]
  /\ reqBody[served[1]] # reqBody[served[2]]
  /\ \A r \in 1..3 : responses[r].status = 200 /\ responses[r].chunks # <<>>

(***************************************************************************)
(* The page: the Run button, the Enter key of the query field, and the     *)
(* runPipeline calls they start.  A call runs from one await to the next   *)
(* in one step; what a fetch, a body or a read of the answer stream        *)
(* delivers is the environment's choice.  A read is modelled by the        *)
(* events it completes, not by its characters.                             *)
(***************************************************************************)
\* most runPipeline calls of one behaviour, and most reads of one call that
\* deliver an event
MaxRuns == 2
MaxReads == 2

RunningStages == {"chunking", "retrieving", "generating"}

\* the awaits of runPipeline
Awaits == {"timer1", "fetchSearch", "jsonSearch", "timer2", "fetchAnswer", "reading"}

\* the calls between their first await and their end
InProgress == {r \in DOMAIN runPc : runPc[r] \in Awaits}

\* the text of an answer event, and the text the page shows for no result
EventText == "text"
NoRelevantContent == "No relevant content found"

InitUi ==
  /\ ChunkerIdle
  /\ SearchIdle
  /\ RouteIdle
  /\ StreamIdle
  /\ uiQuery \in {<<" ">>, Q_dog}
  /\ uiDocCount \in 0..1
  /\ stage = "idle"
  /\ uiError = NoError
  /\ answer = <<>>
  /\ answerRef = <<>>
  /\ shown = 0
  /\ runPc = [r \in 1..MaxRuns |-> "new"]
  /\ runReads = [r \in 1..MaxRuns |-> 0]

\* if (!query.trim() || docs.length === 0) return
RunGuard == Trim(uiQuery) # <<>> /\ uiDocCount # 0

\* disabled={!query.trim() || docs.length === 0 || stage !== "idle" && stage !== "done"}
ButtonDisabled ==
  Trim(uiQuery) = <<>> \/ uiDocCount = 0 \/ (stage # "idle" /\ stage # "done")

\* call r moves to await (or end) p
Goto(r, p) == runPc' = [runPc EXCEPT ![r] = p]

\* a call of runPipeline, up to its first await: call r is the next one
RunPipeline(r) ==
  /\ runPc[r] = "new"
  /\ \A q \in 1..(r - 1) : runPc[q] # "new"
  /\ IF RunGuard
     THEN /\ uiError' = NoError
          /\ answer' = <<>>
          /\ answerRef' = <<>>
          /\ shown' = 0
          /\ stage' = "chunking"
          /\ Goto(r, "timer1")
     ELSE /\ Goto(r, "returned")
          /\ UNCHANGED <<uiError, answer, answerRef, shown, stage>>
  /\ UNCHANGED <<uiQuery, uiDocCount, runReads>>
  /\ UNCHANGED notUiVars

\* onClick={runPipeline} of the Run button
ClickRun ==
  /\ ~ButtonDisabled
  /\ \E r \in 1..MaxRuns : RunPipeline(r)

\* the keys the model presses in the query field
Keys == {"Enter", "Escape"}

\* onKeyDown={(e) => e.key === "Enter" && runPipeline()} of the query field
KeyDown(key) ==
  /\ key = "Enter"
  /\ \E r \in 1..MaxRuns : RunPipeline(r)

\* the 600 ms timer: setStage("retrieving") and the search fetch
Timer1(r) ==
  /\ runPc[r] = "timer1"
  /\ stage' = "retrieving"
  /\ Goto(r, "fetchSearch")
  /\ UNCHANGED <<uiQuery, uiDocCount, uiError, answer, answerRef, shown, runReads>>
  /\ UNCHANGED notUiVars

\* the search fetch settles
SearchFetched(r, outcome) ==
  /\ runPc[r] = "fetchSearch"
  /\ CASE outcome = "ok" ->
            /\ Goto(r, "jsonSearch")
            /\ UNCHANGED <<uiError, stage>>
       [] outcome = "notok" ->
            /\ uiError' = "Retrieval failed"
            /\ stage' = "idle"
            /\ Goto(r, "returned")
       [] outcome = "rejected" ->
            /\ Goto(r, "threw")
            /\ UNCHANGED <<uiError, stage>>
  /\ UNCHANGED <<uiQuery, uiDocCount, answer, answerRef, shown, runReads>>
  /\ UNCHANGED notUiVars

\* searchRes.json() settles
SearchParsed(r, outcome) ==
  /\ runPc[r] = "jsonSearch"
  /\ CASE outcome = "chunks" ->
            /\ shown' = r
            /\ Goto(r, "timer2")
            /\ UNCHANGED <<answer, stage>>
       [] outcome = "empty" ->
            /\ shown' = r
            /\ answer' = <<[run |-> r, text |-> NoRelevantContent]>>
            /\ stage' = "done"
            /\ Goto(r, "returned")
       [] outcome = "rejected" ->
            /\ Goto(r, "threw")
            /\ UNCHANGED <<answer, stage, shown>>
  /\ UNCHANGED <<uiQuery, uiDocCount, uiError, answerRef, runReads>>
  /\ UNCHANGED notUiVars

\* the 300 ms timer: setStage("generating") and the answer fetch
Timer2(r) ==
  /\ runPc[r] = "timer2"
  /\ stage' = "generating"
  /\ Goto(r, "fetchAnswer")
  /\ UNCHANGED <<uiQuery, uiDocCount, uiError, answer, answerRef, shown, runReads>>
  /\ UNCHANGED notUiVars

\* the answer fetch settles
AnswerFetched(r, outcome) ==
  /\ runPc[r] = "fetchAnswer"
  /\ CASE outcome = "ok" ->
            /\ Goto(r, "reading")
            /\ UNCHANGED <<uiError, stage>>
       [] outcome = "notok" ->
            /\ uiError' = "Generation failed"
            /\ stage' = "idle"
            /\ Goto(r, "returned")
       [] outcome = "rejected" ->
            /\ Goto(r, "threw")
            /\ UNCHANGED <<uiError, stage>>
  /\ UNCHANGED <<uiQuery, uiDocCount, answer, answerRef, shown, runReads>>
  /\ UNCHANGED notUiVars

\* reader.read() settles: with a text event, with the [DONE] event, with
\* done, or with a rejection
ReadSettled(r, outcome) ==
  /\ runPc[r] = "reading"
  /\ CASE outcome = "text" ->
            /\ runReads[r] < MaxReads
            /\ answerRef' = Append(answerRef, [run |-> r, text |-> EventText])
            /\ answer' = answerRef'
            /\ runReads' = [runReads EXCEPT ![r] = @ + 1]
            /\ UNCHANGED <<stage, runPc>>
       [] outcome = "marker" ->
            /\ runReads[r] < MaxReads
            /\ runReads' = [runReads EXCEPT ![r] = @ + 1]
            /\ UNCHANGED <<stage, runPc, answer, answerRef>>
       [] outcome = "done" ->
            /\ stage' = "done"
            /\ Goto(r, "returned")
            /\ UNCHANGED <<answer, answerRef, runReads>>
       [] outcome = "rejected" ->
            /\ Goto(r, "threw")
            /\ UNCHANGED <<stage, answer, answerRef, runReads>>
  /\ UNCHANGED <<uiQuery, uiDocCount, uiError, shown>>
  /\ UNCHANGED notUiVars

NextUi ==
  \/ ClickRun
  \/ \E key \in Keys : KeyDown(key)
  \/ \E r \in 1..MaxRuns : Timer1(r)
  \/ \E r \in 1..MaxRuns : \E o \in {"ok", "notok", "rejected"} : SearchFetched(r, o)
  \/ \E r \in 1..MaxRuns : \E o \in {"chunks", "empty", "rejected"} : SearchParsed(r, o)
  \/ \E r \in 1..MaxRuns : Timer2(r)
  \/ \E r \in 1..MaxRuns : \E o \in {"ok", "notok", "rejected"} : AnswerFetched(r, o)
  \/ \E r \in 1..MaxRuns : \E o \in {"text", "marker", "done", "rejected"} : ReadSettled(r, o)

SpecUi == InitUi /\ [][NextUi]_vars

\* the runs whose text events the answer shown is made of
AnswerRuns == {answer[k].run : k \in 1..Len(answer)}

\* C18: at most one runPipeline call is in progress at a time, so the answer
\* shown is made of the text events of one run.
C18_SingleRunInProgress ==
  /\ Cardinality(InProgress) <= 1
  /\ Cardinality(AnswerRuns) <= 1

\* C19: a runPipeline call that has ended has left the running stages: with
\* no call in progress, stage is "done", or "idle" with an error set or
\* with no call that passed the guard.
C19_RunsLeaveRunningStages ==
  InProgress = {} =>
    \/ stage = "done"
    \/ stage = "idle" /\ uiError # NoError
    \/ stage = "idle" /\ \A r \in DOMAIN runPc : runPc[r] = "new" \/ ~RunGuard

(***************************************************************************)
(* The answer route: the ReadableStream that relays the upstream answer.   *)
(* The upstream body is a sequence of bytes: a character is one byte,      *)
(* except the character written in the two bytes "c3" "a9".  A JSON body   *)
(* is abbreviated to a brace, its text, a brace.                           *)
(***************************************************************************)
\* most events of one upstream answer
MaxEvents == 2

\* the kinds of upstream events: a text delta "x", a text delta of the
\* two-byte character, an event that is no text delta, a [DONE] line
Kinds == {"x", "u", "p", "d"}

TwoByteChar == "e'"
Replacement == "?"

DataPrefix == <<"d", "a", "t", "a", ":", " ">>
DoneMarker == <<"[", "D", "O", "N", "E", "]">>

\* the data of an upstream event as the upstream writes it, in bytes
BodyBytes(kind) ==
  CASE kind = "x" -> <<"{", "x", "}">>
    [] kind = "u" -> <<"{", "c3", "a9", "}">>
    [] kind = "p" -> <<"{", "p", "}">>
    [] kind = "d" -> DoneMarker

\* the text of a text delta of that kind
TextOfKind(kind) == IF kind = "u" THEN <<TwoByteChar>> ELSE <<kind>>

IsTextKind(kind) == kind \in {"x", "u"}

\* an upstream event on the wire: an event line, the data line, a blank line
Wire(kind) ==
  <<"e", "v", "\n">> \o DataPrefix \o BodyBytes(kind) \o <<"\n", "\n">>

\* the upstream body of a sequence of events
RECURSIVE Payload(_)
Payload(evs) ==
  IF evs = <<>> THEN <<>> ELSE Wire(Head(evs)) \o Payload(Tail(evs))

\* the sequences of at most n events of the kinds ks
RECURSIVE EventSeqs(_, _)
EventSeqs(ks, n) ==
  IF n = 0 THEN {<<>>}
  ELSE {<<>>} \cup {<<k>> \o rest : k \in ks, rest \in EventSeqs(ks, n - 1)}

\* decoder.decode(value, { stream: true }): the characters of the bytes,
\* lead being the bytes held back by the previous call; an incomplete
\* character at the end is held back for the next call
RECURSIVE DecodeFrom(_, _, _, _)
DecodeFrom(bytes, i, lead, chars) ==
  IF i > Len(bytes) THEN [chars |-> chars, pending |-> lead]
  ELSE IF lead # <<>>
       THEN IF bytes[i] = "a9"
            THEN DecodeFrom(bytes, i + 1, <<>>, Append(chars, TwoByteChar))
            ELSE DecodeFrom(bytes, i, <<>>, Append(chars, Replacement))
       ELSE IF bytes[i] = "c3" THEN DecodeFrom(bytes, i + 1, <<"c3">>, chars)
       ELSE IF bytes[i] = "a9"
            THEN DecodeFrom(bytes, i + 1, <<>>, Append(chars, Replacement))
            ELSE DecodeFrom(bytes, i + 1, <<>>, Append(chars, bytes[i]))

DecodeStream(bytes, lead) == DecodeFrom(bytes, 1, lead, <<>>)

\* buffer.split("\n"): the pieces between the newlines, empty pieces kept
RECURSIVE SplitNewlineFrom(_, _, _)
SplitNewlineFrom(t, i, cur) ==
  IF i > Len(t) THEN <<cur>>
  ELSE IF t[i] = "\n" THEN <<cur>> \o SplitNewlineFrom(t, i + 1, <<>>)
  ELSE SplitNewlineFrom(t, i + 1, Append(cur, t[i]))

\* a buffer that forgets the unfinished line
DropLastLine(lines) == <<>>

\* buffer = lines.pop() || ""
KeepLastLine(lines) == lines[Len(lines)]

\* line.startsWith(prefix)
StartsWith(line, prefix) ==
  Len(line) >= Len(prefix) /\ SubSeq(line, 1, Len(prefix)) = prefix

\* JSON.parse(data) returns: data is a brace, a text without braces, a brace
JsonParses(data) ==
  /\ Len(data) >= 3
  /\ data[1] = "{" /\ data[Len(data)] = "}"
  /\ \A k \in 2..(Len(data) - 1) : data[k] \notin {"{", "}"}

\* what it returns then
JsonParse(data) ==
  LET t == SubSeq(data, 2, Len(data) - 1)
  IN IF t = <<"p">>
     THEN [type |-> "ping", delta |-> [type |-> "undefined", text |-> <<>>]]
     ELSE [type |-> "content_block_delta", delta |-> [type |-> "text_delta", text |-> t]]

\* parsed.type === "content_block_delta" && parsed.delta?.type === "text_delta"
IsTextDelta(parsed) ==
  parsed.type = "content_block_delta" /\ parsed.delta.type = "text_delta"

\* the events on the response stream
TextEvent(t) == [event |-> "text", text |-> t]
DoneEvent == [event |-> "done", text |-> DoneMarker]
ErrorEvent == [event |-> "error", text |-> <<>>]

\* the body of the for loop over the lines, for one line
RelayLine(line) ==
  IF StartsWith(line, DataPrefix)
  THEN LET data == Trim(Slice(line, 6, Len(line)))
       IN IF data = DoneMarker THEN <<>>
          ELSE IF JsonParses(data) /\ IsTextDelta(JsonParse(data))
               THEN <<TextEvent(JsonParse(data).delta.text)>>
               ELSE <<>>
  ELSE <<>>

\* for (const line of lines)
RECURSIVE RelayLines(_)
RelayLines(lines) ==
  IF lines = <<>> THEN <<>>
  ELSE RelayLine(Head(lines)) \o RelayLines(Tail(lines))

\* the event object the SDK's stream yields for an upstream event
SdkChunk(kind) == JsonParse(<<"{">> \o TextOfKind(kind) \o <<"}">>)

InitAnswer ==
  /\ ChunkerIdle
  /\ SearchIdle
  /\ RouteIdle
  /\ UiIdle
  /\ variant \in {"fetch", "sdk"}
  /\ upEvents \in EventSeqs(IF variant = "fetch" THEN Kinds ELSE Kinds \ {"d"}, MaxEvents)
  /\ upPos = 0
  /\ decPending = <<>>
  /\ lineBuffer = <<>>
  /\ out = <<>>
  /\ closed = FALSE
  /\ sawPartLine = FALSE
  /\ sawPartChar = FALSE

\* the terminal event and controller.close()
Finish(ev) ==
  /\ out' = Append(out, ev)
  /\ closed' = TRUE
  /\ UNCHANGED <<variant, upEvents, upPos, decPending, lineBuffer, sawPartLine,
                 sawPartChar>>
  /\ UNCHANGED notStreamVars

\* reader.read() resolves with the next n bytes of the body: decode, split,
\* keep the unfinished line, relay the finished ones
ReadValue(n) ==
  /\ variant = "fetch" /\ ~closed
  /\ upPos + n <= Len(Payload(upEvents))
  /\ LET value == SubSeq(Payload(upEvents), upPos + 1, upPos + n)
         dec == DecodeStream(value, decPending)
         lines == SplitNewlineFrom(lineBuffer \o dec.chars, 1, <<>>)
     IN /\ decPending' = dec.pending
        /\ lineBuffer' = KeepLastLine(lines)
        /\ out' = out \o RelayLines(SubSeq(lines, 1, Len(lines) - 1))
        /\ sawPartChar' = (sawPartChar \/ dec.pending # <<>>)
        /\ sawPartLine' = (sawPartLine \/ lines[Len(lines)] # <<>>)
  /\ upPos' = upPos + n
  /\ UNCHANGED <<variant, upEvents, closed>>
  /\ UNCHANGED notStreamVars

\* reader.read() resolves with done at the end of the body
ReadDone ==
  /\ variant = "fetch" /\ ~closed
  /\ upPos = Len(Payload(upEvents))
  /\ Finish(DoneEvent)

\* reader.read() rejects
ReadRejected ==
  /\ variant = "fetch" /\ ~closed
  /\ Finish(ErrorEvent)

\* the SDK's stream yields its next event
SdkYield ==
  /\ variant = "sdk" /\ ~closed
  /\ upPos < Len(upEvents)
  /\ LET chunk == SdkChunk(upEvents[upPos + 1])
     IN out' = IF IsTextDelta(chunk) THEN Append(out, TextEvent(chunk.delta.text))
               ELSE out
  /\ upPos' = upPos + 1
  /\ UNCHANGED <<variant, upEvents, decPending, lineBuffer, closed, sawPartLine,
                 sawPartChar>>
  /\ UNCHANGED notStreamVars

\* the SDK's stream ends
SdkEnd ==
  /\ variant = "sdk" /\ ~closed
  /\ upPos = Len(upEvents)
  /\ Finish(DoneEvent)

\* the SDK's stream throws
SdkThrow ==
  /\ variant = "sdk" /\ ~closed
  /\ Finish(ErrorEvent)

NextAnswer ==
  \/ \E n \in 1..Len(Payload(upEvents)) : ReadValue(n)
  \/ ReadDone
  \/ ReadRejected
  \/ SdkYield
  \/ SdkEnd
  \/ SdkThrow

\* the steps that are not a read of further bytes of the body
Settles ==
  \/ ReadDone
  \/ ReadRejected
  \/ SdkYield
  \/ SdkEnd
  \/ SdkThrow

\* the upstream does not hang: a read or an iteration the route waits for
\* settles.  The reads that deliver bytes are finitely many, so this is the
\* weak fairness of the whole next-state relation.
SpecAnswer == InitAnswer /\ [][NextAnswer]_vars /\ WF_vars(Settles)

\* the upstream events whose data line the route has received to its end
DeliveredCount ==
  IF variant = "sdk" THEN upPos
  ELSE Cardinality({j \in 1..Len(upEvents) :
                      upPos >= Len(Payload(SubSeq(upEvents, 1, j))) - 1})

\* one text event for each text delta among upstream events, in their order
RECURSIVE TextEventsOf(_)
TextEventsOf(evs) ==
  IF evs = <<>> THEN <<>>
  ELSE (IF IsTextKind(Head(evs)) THEN <<TextEvent(TextOfKind(Head(evs)))>> ELSE <<>>)
       \o TextEventsOf(Tail(evs))

IsTextEvent(e) == e.event = "text"
IsTerminal(e) == e.event \in {"done", "error"}

\* the text events on the response stream are those of the text deltas
\* received so far: each once, in upstream order
RelayedSoFar ==
  SelectSeq(out, IsTextEvent) = TextEventsOf(SubSeq(upEvents, 1, DeliveredCount))

\* a terminal event is on the stream exactly when the stream is closed, and
\* then it is the last event and the only terminal one; [DONE] comes after
\* the whole upstream only
OneTerminalLast ==
  /\ closed <=> (out # <<>> /\ IsTerminal(out[Len(out)]))
  /\ \A k \in 1..(Len(out) - 1) : ~IsTerminal(out[k])
  /\ (closed /\ out[Len(out)] = DoneEvent) =>
       SelectSeq(out, IsTextEvent) = TextEventsOf(upEvents)

\* C20: however the upstream body is split across reads, the response stream
\* carries one text event per upstream text delta received, in upstream
\* order, none lost or repeated; it ends with exactly one terminal event
\* ([DONE] after the whole upstream, an error event after a failure) and is
\* closed with it; nothing is enqueued after that; and every stream gets
\* there.
C20_FaithfulRelay ==
  /\ [](variant # "none" => (RelayedSoFar /\ OneTerminalLast))
  /\ [][closed => out' = out]_vars
  /\ <>closed

\* a stream of the fetch route closed by [DONE] after two text events, one of
\* them of the two-byte character, with a read that ended inside a line and
\* a read that ended inside that character
C20_WitnessSplitReads ==
  /\ variant = "fetch"
  /\ closed
  /\ Len(out) = 3
  /\ out[3] = DoneEvent
  /\ \E k \in 1..2 : out[k] = TextEvent(<<TwoByteChar>>)
  /\ sawPartLine
  /\ sawPartChar

====
